---- MODULE Spec2Model ----
(***************************************************************************)
(* Model of src/app.py, the SMS campaign dashboard: one execution of the   *)
(* Streamlit script from the URL input to the final report.                *)
(*                                                                         *)
(* A Python str is modelled as a sequence of text pieces (a URL and a      *)
(* sheet cell as sequences of single characters), so that concatenation    *)
(* is \o, str.strip and the regular expression work on the characters, and *)
(* two texts are equal exactly when their sequences are.                   *)
(* An optional value (None or a value) is the empty set or a singleton.    *)
(***************************************************************************)
EXTENDS Naturals, Sequences, FiniteSets

VARIABLES
    pc,              \* position of the script run
    sheet_url,       \* st.text_input value (line 43)
    sheet_id,        \* result of extract_sheet_id (line 46), optional
    df,              \* the selected phone column of the DataFrame, in row order
    row_count,       \* len(df) (line 73)
    estimated_cost,  \* cost estimate in cents (line 87)
    message_body,    \* st.text_area value (line 79)
    secrets,         \* keys present in st.secrets["twilio"]
    twilio_client,   \* optional Twilio client (line 106)
    success_count,   \* line 114
    fail_count,      \* line 115
    failed_numbers,  \* line 116
    index,           \* loop index of df.iterrows() (line 119)
    progress_bar,    \* optional value shown by the progress bar widget
    status_text,     \* optional text shown by the status placeholder
    notified,        \* every progress update made, in order (lines 137-139)
    gateway_log,     \* every twilio_client.messages.create call, in order
    alerts,          \* st.warning / st.error / st.success boxes shown, in order
    res_col1,        \* optional "Sent Successfully" metric (line 149)
    res_col2,        \* optional "Failed" metric (line 150)
    expander         \* optional "View Failed Numbers" content (lines 152-154)

vars == <<pc, sheet_url, sheet_id, df, row_count, estimated_cost, message_body,
          secrets, twilio_client, success_count, fail_count, failed_numbers,
          index, progress_bar, status_text, notified, gateway_log, alerts,
          res_col1, res_col2, expander>>

\* ---------------------------------------------------------------- bounds
MaxRows == 3
MaxUrlLen == 5

\* ------------------------------------------------------------- constants
\* estimated_cost = row_count * 0.03, kept in cents
UnitCostCents == 3

NoValue == {}
Some(x) == {x}

\* ------------------------------------------------- extract_sheet_id
Lower == {"a","b","c","d","e","f","g","h","i","j","k","l","m",
          "n","o","p","q","r","s","t","u","v","w","x","y","z"}
Upper == {"A","B","C","D","E","F","G","H","I","J","K","L","M",
          "N","O","P","Q","R","S","T","U","V","W","X","Y","Z"}
Digit == {"0","1","2","3","4","5","6","7","8","9"}

\* the character class [a-zA-Z0-9-_]
IdChars == Lower \cup Upper \cup Digit \cup {"-", "_"}

\* the pattern matches at position i: "/d/" and at least one class character
MatchAt(url, i) ==
    /\ i + 3 <= Len(url)
    /\ url[i] = "/"
    /\ url[i + 1] = "d"
    /\ url[i + 2] = "/"
    /\ url[i + 3] \in IdChars

\* the greedy + : last position of the run of class characters that starts at j
RECURSIVE GroupEnd(_, _)
GroupEnd(url, j) ==
    IF j + 1 <= Len(url) /\ url[j + 1] \in IdChars
    THEN GroupEnd(url, j + 1)
    ELSE j

\* re.search: the leftmost position where the pattern matches; group(1)
RECURSIVE re_search(_, _)
re_search(url, i) ==
    IF i > Len(url) THEN NoValue
    ELSE IF MatchAt(url, i) THEN Some(SubSeq(url, i + 3, GroupEnd(url, i + 3)))
    ELSE re_search(url, i + 1)

\* the same search with a closing "/" demanded after the group
RECURSIVE re_search_closed(_, _)
re_search_closed(url, i) ==
    IF i > Len(url) THEN NoValue
    ELSE IF /\ MatchAt(url, i)
            /\ GroupEnd(url, i + 3) + 1 <= Len(url)
            /\ url[GroupEnd(url, i + 3) + 1] = "/"
         THEN Some(SubSeq(url, i + 3, GroupEnd(url, i + 3)))
    ELSE re_search_closed(url, i + 1)

extract_sheet_id_closed(url) == re_search_closed(url, 1)

extract_sheet_id(url) == re_search(url, 1)

\* ---------------------------------------------------------------- inputs
\* characters a URL is drawn from: the separator, the letter of "/d/", a digit,
\* the two punctuation characters of the class, and one outside the class
UrlChars == {"/", "d", "7", "-", "_", "?"}

Urls == UNION {[1..n -> UrlChars] : n \in 0..MaxUrlLen}

\* URLs of the campaign runs: none typed, one without an identifier, one with
SampleUrls == {<<>>, <<"d", "/", "7">>, <<"/", "d", "/", "7", "/">>}

\* cell values of the phone column as returned by the sheet
RawCells == {<<"A">>, <<"B">>, <<"C">>, <<" ", "A", " ">>}

Tables == UNION {[1..n -> RawCells] : n \in 0..MaxRows}

\* message box contents: empty or some text
Bodies == {<<>>, <<"h", "i">>}

SecretKeys == {"account_sid", "auth_token", "from_number"}

\* error messages the gateway may report in a TwilioRestException
GatewayMsgs == {<<"invalid number">>, <<"Unknown Error">>}

\* ------------------------------------------------------------ str.strip
RECURSIVE lstrip(_)
lstrip(s) == IF s # <<>> /\ Head(s) = " " THEN lstrip(Tail(s)) ELSE s

RECURSIVE rstrip(_)
rstrip(s) ==
    IF s # <<>> /\ s[Len(s)] = " " THEN rstrip(SubSeq(s, 1, Len(s) - 1)) ELSE s

str_strip(s) == rstrip(lstrip(s))

\* df[phone_col].astype(str).str.strip()
normalize_column(col) == [i \in 1..Len(col) |-> str_strip(col[i])]

\* ------------------------------------------------------------------ Init
Blank ==
    /\ pc = "parse"
    /\ sheet_id = NoValue
    /\ df = <<>>
    /\ row_count = 0
    /\ estimated_cost = 0
    /\ message_body = <<>>
    /\ secrets = {}
    /\ twilio_client = NoValue
    /\ success_count = 0
    /\ fail_count = 0
    /\ failed_numbers = <<>>
    /\ index = 0
    /\ progress_bar = NoValue
    /\ status_text = NoValue
    /\ notified = <<>>
    /\ gateway_log = <<>>
    /\ alerts = <<>>
    /\ res_col1 = NoValue
    /\ res_col2 = NoValue
    /\ expander = NoValue

Init == sheet_url \in SampleUrls /\ Blank

InitUrl == sheet_url \in Urls /\ Blank

campaign == <<success_count, fail_count, failed_numbers, index, progress_bar,
              status_text, notified, gateway_log>>
report == <<res_col1, res_col2, expander>>
table == <<df, row_count, estimated_cost>>
launch == <<message_body, secrets, twilio_client>>

\* ------------------------------------------------------- Step 1: load
\* lines 45-49: the URL is parsed; an empty input renders nothing more
ParseUrl ==
    /\ pc = "parse"
    /\ IF sheet_url = <<>>
       THEN /\ pc' = "end"
            /\ UNCHANGED <<sheet_id, alerts>>
       ELSE /\ sheet_id' = extract_sheet_id(sheet_url)
            /\ IF extract_sheet_id(sheet_url) = NoValue
               THEN /\ alerts' = Append(alerts, "invalid_url")
                    /\ pc' = "end"
               ELSE /\ pc' = "load"
                    /\ UNCHANGED alerts
    /\ UNCHANGED <<sheet_url, table, launch, campaign, report>>

\* lines 51-55: the first sheet's records become the DataFrame
LoadRecords ==
    /\ pc = "load"
    /\ \E data \in Tables : df' = data
    /\ pc' = "check_empty"
    /\ UNCHANGED <<sheet_url, sheet_id, row_count, estimated_cost, launch,
                   campaign, report, alerts>>

\* lines 156-157: the sheet is not shared with the service account
LoadAPIError ==
    /\ pc = "load"
    /\ alerts' = Append(alerts, "permission_denied")
    /\ pc' = "end"
    /\ UNCHANGED <<sheet_url, sheet_id, table, launch, campaign, report>>

\* lines 158-159
LoadSheetNotFound ==
    /\ pc = "load"
    /\ alerts' = Append(alerts, "sheet_not_found")
    /\ pc' = "end"
    /\ UNCHANGED <<sheet_url, sheet_id, table, launch, campaign, report>>

\* lines 160-161: any other exception of the load
LoadUnexpected ==
    /\ pc = "load"
    /\ alerts' = Append(alerts, "unexpected_error")
    /\ pc' = "end"
    /\ UNCHANGED <<sheet_url, sheet_id, table, launch, campaign, report>>

\* never empty
df_empty_never(d) == FALSE

\* df.empty: no rows (the column modelled always exists)
df_empty(d) == Len(d) = 0

\* lines 57-60
CheckEmpty ==
    /\ pc = "check_empty"
    /\ IF df_empty(df)
       THEN /\ alerts' = Append(alerts, "sheet_empty")
            /\ pc' = "end"
       ELSE /\ alerts' = Append(alerts, "data_loaded")
            /\ pc' = "configure"
    /\ UNCHANGED <<sheet_url, sheet_id, table, launch, campaign, report>>

\* ------------------------------------------- Step 2: preview & configure
\* lines 63-74: the phone column is selected and cleaned, the rows counted
Configure ==
    /\ pc = "configure"
    /\ df' = normalize_column(df)
    /\ row_count' = Len(df)
    /\ pc' = "compose"
    /\ UNCHANGED <<sheet_url, sheet_id, estimated_cost, launch, campaign,
                   report, alerts>>

\* ------------------------------------------------ Step 3: compose message
\* lines 77-92: the message box is read and the cost estimated
Compose ==
    /\ pc = "compose"
    /\ \E body \in Bodies : message_body' = body
    /\ estimated_cost' = row_count * UnitCostCents
    /\ pc' = "button"
    /\ UNCHANGED <<sheet_url, sheet_id, df, row_count, secrets, twilio_client,
                   campaign, report, alerts>>

\* ------------------------------------------------------ Step 4: send SMS
\* line 97: the button was not clicked in this run
ButtonIdle ==
    /\ pc = "button"
    /\ pc' = "end"
    /\ UNCHANGED <<sheet_url, sheet_id, table, launch, campaign, report, alerts>>

\* nothing counts as missing
body_missing_never(body) == FALSE

\* "not message_body"
body_missing(body) == body = <<>>

\* lines 97-100: the button was clicked
ButtonClicked ==
    /\ pc = "button"
    /\ IF body_missing(message_body)
       THEN /\ alerts' = Append(alerts, "enter_message")
            /\ pc' = "end"
       ELSE /\ pc' = "auth"
            /\ UNCHANGED alerts
    /\ UNCHANGED <<sheet_url, sheet_id, table, launch, campaign, report>>

\* the sending address is not looked up
secrets_missing_lazy(present) == ~({"account_sid", "auth_token"} \subseteq present)

\* lines 103-105 raise KeyError when one of the three keys is absent
secrets_missing(present) == ~(SecretKeys \subseteq present)

\* lines 102-109: the credentials are read and the client built, or the run stops
TwilioAuth ==
    /\ pc = "auth"
    /\ \E present \in SUBSET SecretKeys :
         /\ secrets' = present
         /\ IF secrets_missing(present)
            THEN /\ alerts' = Append(alerts, "credentials_missing")
                 /\ pc' = "stopped"
                 /\ UNCHANGED twilio_client
            ELSE /\ twilio_client' = Some("Client")
                 /\ pc' = "counters"
                 /\ UNCHANGED alerts
    /\ UNCHANGED <<sheet_url, sheet_id, table, message_body, campaign, report>>

\* lines 112-116 and the loop head of line 119
StartCampaign ==
    /\ pc = "counters"
    /\ progress_bar' = Some(<<0, 1>>)
    /\ status_text' = NoValue
    /\ success_count' = 0
    /\ fail_count' = 0
    /\ failed_numbers' = <<>>
    /\ index' = 0
    /\ pc' = IF 0 < Len(df) THEN "send" ELSE "report"
    /\ UNCHANGED <<sheet_url, sheet_id, table, launch, notified, gateway_log,
                   report, alerts>>

\* f"{number} ({e.msg})" and f"{number} (Unknown Error)"
failed_entry(number, reason) == number \o <<" (">> \o reason \o <<")">>

UnknownError == <<"Unknown Error">>

\* one twilio_client.messages.create call (lines 123-127) as the gateway saw it
create_call(result, msg) ==
    [body |-> message_body, from_ |-> "from_number", to |-> df[index + 1],
     result |-> result, msg |-> msg]

\* lines 120-128: the gateway accepts the message
SendAccepted ==
    /\ pc = "send"
    /\ gateway_log' = Append(gateway_log, create_call("accepted", <<>>))
    /\ success_count' = success_count + 1
    /\ pc' = "progress"
    /\ UNCHANGED <<sheet_url, sheet_id, table, launch, fail_count, failed_numbers,
                   index, progress_bar, status_text, notified, report, alerts>>

\* the rejection is counted as a success
SendRejectedAsSent ==
    /\ pc = "send"
    /\ \E msg \in GatewayMsgs :
         gateway_log' = Append(gateway_log, create_call("rejected", msg))
    /\ success_count' = success_count + 1
    /\ pc' = "progress"
    /\ UNCHANGED <<sheet_url, sheet_id, table, launch, fail_count, failed_numbers,
                   index, progress_bar, status_text, notified, report, alerts>>

\* the rejection ends the loop
SendRejectedBreaks ==
    /\ pc = "send"
    /\ \E msg \in GatewayMsgs :
         /\ gateway_log' = Append(gateway_log, create_call("rejected", msg))
         /\ failed_numbers' = Append(failed_numbers, failed_entry(df[index + 1], msg))
    /\ fail_count' = fail_count + 1
    /\ pc' = "report"
    /\ UNCHANGED <<sheet_url, sheet_id, table, launch, success_count, index,
                   progress_bar, status_text, notified, report, alerts>>

\* the rejection is recorded with the generic reason
SendRejectedGeneric ==
    /\ pc = "send"
    /\ \E msg \in GatewayMsgs :
         gateway_log' = Append(gateway_log, create_call("rejected", msg))
    /\ failed_numbers' =
         Append(failed_numbers, failed_entry(df[index + 1], UnknownError))
    /\ fail_count' = fail_count + 1
    /\ pc' = "progress"
    /\ UNCHANGED <<sheet_url, sheet_id, table, launch, success_count, index,
                   progress_bar, status_text, notified, report, alerts>>

\* lines 120-127, 129-131: the gateway rejects the message (TwilioRestException)
SendRejected ==
    /\ pc = "send"
    /\ \E msg \in GatewayMsgs :
         /\ gateway_log' = Append(gateway_log, create_call("rejected", msg))
         /\ failed_numbers' = Append(failed_numbers, failed_entry(df[index + 1], msg))
    /\ fail_count' = fail_count + 1
    /\ pc' = "progress"
    /\ UNCHANGED <<sheet_url, sheet_id, table, launch, success_count, index,
                   progress_bar, status_text, notified, report, alerts>>

\* the failure is listed but not counted
SendFaultUncounted ==
    /\ pc = "send"
    /\ gateway_log' = Append(gateway_log, create_call("fault", <<>>))
    /\ failed_numbers' =
         Append(failed_numbers, failed_entry(df[index + 1], UnknownError))
    /\ pc' = "progress"
    /\ UNCHANGED <<sheet_url, sheet_id, table, launch, success_count, fail_count,
                   index, progress_bar, status_text, notified, report, alerts>>

\* the entry replaces the list
SendFaultOverwrites ==
    /\ pc = "send"
    /\ gateway_log' = Append(gateway_log, create_call("fault", <<>>))
    /\ fail_count' = fail_count + 1
    /\ failed_numbers' = <<failed_entry(df[index + 1], UnknownError)>>
    /\ pc' = "progress"
    /\ UNCHANGED <<sheet_url, sheet_id, table, launch, success_count, index,
                   progress_bar, status_text, notified, report, alerts>>

\* lines 120-127, 132-134: the call fails with any other Exception
SendFault ==
    /\ pc = "send"
    /\ gateway_log' = Append(gateway_log, create_call("fault", <<>>))
    /\ fail_count' = fail_count + 1
    /\ failed_numbers' =
         Append(failed_numbers, failed_entry(df[index + 1], UnknownError))
    /\ pc' = "progress"
    /\ UNCHANGED <<sheet_url, sheet_id, table, launch, success_count, index,
                   progress_bar, status_text, notified, report, alerts>>

\* the update shows the 0-based index
UpdateProgressOffByOne ==
    /\ pc = "progress"
    /\ progress_bar' = Some(<<index, row_count>>)
    /\ status_text' = Some(<<index, row_count>>)
    /\ notified' = Append(notified, <<index, row_count>>)
    /\ index' = index + 1
    /\ pc' = IF index + 1 < Len(df) THEN "send" ELSE "report"
    /\ UNCHANGED <<sheet_url, sheet_id, table, launch, success_count, fail_count,
                   failed_numbers, gateway_log, report, alerts>>

\* lines 137-140, then the loop head of line 119 for the next row
UpdateProgress ==
    /\ pc = "progress"
    /\ progress_bar' = Some(<<index + 1, row_count>>)
    /\ status_text' = Some(<<index + 1, row_count>>)
    /\ notified' = Append(notified, <<index + 1, row_count>>)
    /\ index' = index + 1
    /\ pc' = IF index + 1 < Len(df) THEN "send" ELSE "report"
    /\ UNCHANGED <<sheet_url, sheet_id, table, launch, success_count, fail_count,
                   failed_numbers, gateway_log, report, alerts>>

\* lines 137-140 raise an Exception: nothing inside the loop handles it, the
\* handler of lines 160-161 shows its text
LoopRaises ==
    /\ pc = "progress"
    /\ alerts' = Append(alerts, "unexpected_error")
    /\ pc' = "end"
    /\ UNCHANGED <<sheet_url, sheet_id, table, launch, campaign, report>>

\* a Streamlit call of lines 137-139 ends the run (stop or rerun requested by the
\* operator): a BaseException, which no handler of the script catches
LoopInterrupted ==
    /\ pc = "progress"
    /\ pc' = "stopped"
    /\ UNCHANGED <<sheet_url, sheet_id, table, launch, campaign, report, alerts>>

\* lines 143-154
FinalReport ==
    /\ pc = "report"
    /\ progress_bar' = NoValue
    /\ status_text' = NoValue
    /\ alerts' = Append(alerts, "campaign_completed")
    /\ res_col1' = Some(success_count)
    /\ res_col2' = Some(fail_count)
    /\ expander' = IF failed_numbers # <<>> THEN Some(failed_numbers) ELSE NoValue
    /\ pc' = "end"
    /\ UNCHANGED <<sheet_url, sheet_id, table, launch, success_count, fail_count,
                   failed_numbers, index, notified, gateway_log>>

\* --------------------------------------------------------- specifications
Next ==
    \/ ParseUrl
    \/ LoadRecords
    \/ LoadAPIError
    \/ LoadSheetNotFound
    \/ LoadUnexpected
    \/ CheckEmpty
    \/ Configure
    \/ Compose
    \/ ButtonIdle
    \/ ButtonClicked
    \/ TwilioAuth
    \/ StartCampaign
    \/ SendAccepted
    \/ SendRejected
    \/ SendFault
    \/ UpdateProgress
    \/ LoopRaises
    \/ LoopInterrupted
    \/ FinalReport

Spec == Init /\ [][Next]_vars

\* extract_sheet_id applied to every URL of the bounded alphabet
NextUrl == ParseUrl

SpecUrl == InitUrl /\ [][NextUrl]_vars

\* ------------------------------------------------------------------ claims
Shown(kind) == \E i \in 1..Len(alerts) : alerts[i] = kind

Completed == Shown("campaign_completed")

\* the calls the gateway did not accept, in call order
FailedCalls == SelectSeq(gateway_log, LAMBDA c : c.result # "accepted")

AcceptedCalls == SelectSeq(gateway_log, LAMBDA c : c.result = "accepted")

Results == [i \in 1..Len(gateway_log) |-> gateway_log[i].result]

\* C1: when the loop has processed every record, the reported sent count plus
\* the reported failed count is the number of rows of the (non-empty) table,
\* whatever the gateway answered.
C1_SentPlusFailedIsSize ==
    /\ pc = "report" => success_count + fail_count = Len(df)
    /\ Completed =>
         /\ Len(df) >= 1
         /\ res_col1 # NoValue
         /\ res_col2 # NoValue
         /\ \A s \in res_col1 : \A f \in res_col2 : s + f = Len(df)

C1_Witness ==
    /\ Completed
    /\ Len(df) = 3
    /\ Results = <<"rejected", "fault", "accepted">>
    /\ res_col1 = Some(1)
    /\ res_col2 = Some(2)

\* C2: the gateway is called once per record in table order with the message,
\* a failed record does not end the loop (a completed run has called the
\* gateway for every row), and the failures list holds the failed addresses in
\* table order; for A, B, C with only B rejected ("invalid number") the report
\* is sent 2, failed 1, failures [B (invalid number)].
C2_OncePerRecordInOrder ==
    /\ Len(gateway_log) <= Len(df)
    /\ \A i \in 1..Len(gateway_log) :
         /\ gateway_log[i].to = df[i]
         /\ gateway_log[i].body = message_body
    /\ pc = "send" => Len(gateway_log) = index
    /\ (pc = "report" \/ Completed) => Len(gateway_log) = Len(df)
    /\ Len(failed_numbers) = Len(FailedCalls)
    /\ \A k \in 1..Len(FailedCalls) :
         /\ Len(failed_numbers[k]) > Len(FailedCalls[k].to)
         /\ SubSeq(failed_numbers[k], 1, Len(FailedCalls[k].to)) = FailedCalls[k].to
    /\ ( /\ Completed
         /\ df = << <<"A">>, <<"B">>, <<"C">> >>
         /\ Results = <<"accepted", "rejected", "accepted">>
         /\ gateway_log[2].msg = <<"invalid number">> )
       => /\ res_col1 = Some(2)
          /\ res_col2 = Some(1)
          /\ expander = Some(<< <<"B", " (", "invalid number", ")">> >>)

C2_Witness ==
    /\ Completed
    /\ df = << <<"A">>, <<"B">>, <<"C">> >>
    /\ Results = <<"accepted", "rejected", "accepted">>
    /\ gateway_log[2].msg = <<"invalid number">>
    /\ expander = Some(<< <<"B", " (", "invalid number", ")">> >>)

\* C3: a run whose message box is empty never builds the gateway client, never
\* calls the gateway and never shows a report or a progress update; a click of
\* the launch button then only shows the enter-a-message warning and ends.
C3_EmptyMessageSendsNothing ==
    /\ message_body = <<>> =>
         /\ pc \in {"parse", "load", "check_empty", "configure", "compose",
                    "button", "end"}
         /\ twilio_client = NoValue
         /\ gateway_log = <<>>
         /\ notified = <<>>
         /\ res_col1 = NoValue /\ res_col2 = NoValue /\ expander = NoValue
         /\ ~Completed
    /\ Shown("enter_message") => message_body = <<>> /\ pc = "end"

C3_Witness ==
    /\ Shown("enter_message")
    /\ pc = "end"
    /\ row_count = 2
    /\ gateway_log = <<>>

\* C4: when one of the three gateway credentials is missing the run stops with
\* the credentials error before the loop: no client, no gateway call, no
\* record counted, no report.
C4_MissingCredentialsFailFast ==
    /\ ~(SecretKeys \subseteq secrets) =>
         /\ pc \notin {"counters", "send", "progress", "report"}
         /\ twilio_client = NoValue
         /\ gateway_log = <<>>
         /\ success_count = 0 /\ fail_count = 0 /\ failed_numbers = <<>>
         /\ notified = <<>>
         /\ res_col1 = NoValue /\ res_col2 = NoValue /\ expander = NoValue
    /\ Shown("credentials_missing") <=>
         (pc = "stopped" /\ ~(SecretKeys \subseteq secrets))

C4_Witness ==
    /\ pc = "stopped"
    /\ secrets = {"account_sid", "auth_token"}
    /\ Shown("credentials_missing")
    /\ message_body # <<>>
    /\ gateway_log = <<>>

\* the entry a failed call is listed as when its reason is the text `reason`
EntryText(call, reason) == call.to \o <<" (">> \o reason \o <<")">>

\* C5 as stated: an accepted send is counted as sent, a rejection is listed
\* with its address and the gateway's message, any other fault with its
\* address and the reason "unknown error", and entries of the two kinds never
\* coincide.
C5_AsStated ==
    /\ success_count = Len(AcceptedCalls)
    /\ Len(failed_numbers) = Len(FailedCalls)
    /\ \A k \in 1..Len(FailedCalls) :
         /\ FailedCalls[k].result = "rejected" =>
              failed_numbers[k] = EntryText(FailedCalls[k], FailedCalls[k].msg)
         /\ FailedCalls[k].result = "fault" =>
              failed_numbers[k] = EntryText(FailedCalls[k], <<"unknown error">>)
    /\ \A j, k \in 1..Len(FailedCalls) :
         FailedCalls[j].result # FailedCalls[k].result =>
              failed_numbers[j] # failed_numbers[k]

\* C5 (amended): an accepted send is counted as sent; a rejection is listed as
\* the text "address (gateway message)" with the message unmodified; any
\* other fault as "address (Unknown Error)"; for one address the entries of
\* the two kinds differ unless the gateway's message is itself "Unknown Error".
C5_FailureKinds ==
    /\ success_count = Len(AcceptedCalls)
    /\ Len(failed_numbers) = Len(FailedCalls)
    /\ \A k \in 1..Len(FailedCalls) :
         /\ FailedCalls[k].result = "rejected" =>
              failed_numbers[k] = EntryText(FailedCalls[k], FailedCalls[k].msg)
         /\ FailedCalls[k].result = "fault" =>
              failed_numbers[k] = EntryText(FailedCalls[k], <<"Unknown Error">>)
    /\ \A j, k \in 1..Len(FailedCalls) :
         ( /\ FailedCalls[j].result = "rejected"
           /\ FailedCalls[k].result = "fault"
           /\ FailedCalls[j].to = FailedCalls[k].to )
         => ( failed_numbers[j] # failed_numbers[k]
              <=> FailedCalls[j].msg # <<"Unknown Error">> )

C5_Witness ==
    /\ Len(gateway_log) = 3
    /\ \A i \in 1..3 : gateway_log[i].to = <<"A">>
    /\ Results = <<"rejected", "fault", "rejected">>
    /\ gateway_log[1].msg = <<"invalid number">>
    /\ gateway_log[3].msg = <<"Unknown Error">>
    /\ failed_numbers[1] # failed_numbers[2]
    /\ failed_numbers[3] = failed_numbers[2]

\* C6: over a table of n rows the k-th progress update carries (k, n), is made
\* after the k-th gateway call has returned and before the (k+1)-th is made,
\* and a completed run has made exactly n updates, the last one (n, n).
C6_ProgressPerRecord ==
    /\ \A k \in 1..Len(notified) : notified[k] = <<k, Len(df)>>
    /\ pc = "send" => Len(notified) = Len(gateway_log)
    /\ pc = "progress" => Len(gateway_log) = Len(notified) + 1
    /\ Len(notified) <= Len(gateway_log)
    /\ Len(gateway_log) <= Len(notified) + 1
    /\ (pc = "report" \/ Completed) =>
         /\ Len(notified) = Len(df)
         /\ notified[Len(notified)][1] = Len(df)

C6_Witness ==
    /\ Completed
    /\ notified = << <<1, 3>>, <<2, 3>>, <<3, 3>> >>

\* C7: a load of zero rows shows the empty-sheet error and goes no further: no
\* column selection, message, launch or gateway call; every later stage sees
\* a row count of at least 1.
C7_EmptySheetStops ==
    /\ df = <<>> =>
         /\ pc \in {"parse", "load", "check_empty", "end"}
         /\ row_count = 0
         /\ message_body = <<>>
         /\ twilio_client = NoValue
         /\ gateway_log = <<>>
         /\ ~Shown("data_loaded")
    /\ Shown("sheet_empty") => df = <<>> /\ pc = "end"
    /\ pc \in {"compose", "button", "auth", "counters", "send", "progress",
               "report", "stopped"} => row_count >= 1 /\ row_count = Len(df)

C7_Witness ==
    /\ Shown("sheet_empty")
    /\ pc = "end"
    /\ sheet_id # NoValue

\* the run ended inside the sending loop
LoopAborted ==
    /\ pc \in {"end", "stopped"}
    /\ twilio_client # NoValue
    /\ ~Completed

\* C8: when the run ends inside the sending loop on a fault no per-record
\* handler takes, the counts and failures accumulated so far are shown.
C8_PartialReportShown ==
    LoopAborted =>
        /\ res_col1 = Some(success_count)
        /\ res_col2 = Some(fail_count)
        /\ failed_numbers # <<>> => expander = Some(failed_numbers)

\* ---- extract_sheet_id
Parsed == pc # "parse" /\ sheet_url # <<>>

\* a segment /d/ID/ lies at i, its ID ending at j
SegmentAt(url, i, j) ==
    /\ i + 3 <= j
    /\ j + 1 <= Len(url)
    /\ SubSeq(url, i, i + 2) = <<"/", "d", "/">>
    /\ \A k \in (i + 3)..j : url[k] \in IdChars
    /\ url[j + 1] = "/"

Segments(url) ==
    {p \in (1..Len(url)) \X (1..Len(url)) : SegmentAt(url, p[1], p[2])}

FirstSegment(url) ==
    CHOOSE p \in Segments(url) : \A q \in Segments(url) : p[1] <= q[1]

\* "/d/" followed by an identifier character lies at i
Starts(url) ==
    {i \in 1..Len(url) :
        /\ i + 3 <= Len(url)
        /\ SubSeq(url, i, i + 2) = <<"/", "d", "/">>
        /\ url[i + 3] \in IdChars}

FirstStart(url) == CHOOSE i \in Starts(url) : \A h \in Starts(url) : i <= h

IsPrefix(a, b) == Len(a) <= Len(b) /\ SubSeq(b, 1, Len(a)) = a

\* C10: the counts never decrease, every gateway call adds one to exactly one
\* of them, the failures list only grows at its end, and after k calls
\* sent + failed = k and the list is as long as the failed count.
C10_Additive ==
    /\ [](/\ success_count + fail_count = Len(gateway_log)
          /\ Len(failed_numbers) = fail_count)
    /\ [][/\ success_count' >= success_count
          /\ fail_count' >= fail_count
          /\ IsPrefix(failed_numbers, failed_numbers')
          /\ Len(gateway_log') = Len(gateway_log) + 1 =>
               \/ /\ success_count' = success_count + 1
                  /\ fail_count' = fail_count
                  /\ failed_numbers' = failed_numbers
               \/ /\ success_count' = success_count
                  /\ fail_count' = fail_count + 1
                  /\ Len(failed_numbers') = Len(failed_numbers) + 1
          /\ Len(gateway_log') # Len(gateway_log) + 1 =>
               /\ success_count' = success_count
               /\ fail_count' = fail_count
               /\ failed_numbers' = failed_numbers]_vars

C10_Witness ==
    /\ pc = "progress"
    /\ success_count = 1
    /\ fail_count = 2
    /\ Len(failed_numbers) = 2
    /\ Results = <<"fault", "accepted", "rejected">>

====
